---- MODULE Spec2Model ----
(***************************************************************************)
(* Model of the two chat-completion clients of zchat-react-supabase:       *)
(*   LMStudioAPI   (src/lib/lmstudio.ts)                                   *)
(*   OpenRouterAPI (src/lib/openrouter.ts)                                 *)
(* and of the settings collaborator the cloud client reads its key from.   *)
(*                                                                         *)
(* The response body is a sequence of tokens.  One 'data: <payload>' line  *)
(* is  "data" ": " <payload tokens> ["\r"] "\n" ; the transport may cut    *)
(* the body between any two tokens, so a read chunk may end inside the     *)
(* marker, inside the payload, or between the "\r" and the "\n".           *)
(***************************************************************************)
EXTENDS Naturals, Integers, Sequences, FiniteSets, TLC

\* ------------------------------------------------------------------ bounds
\* frames in one streamed response
MaxFrames == 2

\* frames in one streamed response where the settings collaborator and the
\* other cloud operations take part
MaxShortFrames == 1

\* sends the chat page accepts
MaxSends == 1

\* the most chunks the body of one of two interleaved calls arrives in
MaxPairChunks == 2

\* turns in the conversation passed to one call
MaxTurns == 2

\* chats the user opens one after the other
MaxVisits == 2

\* calls of updateSettings
MaxUpdates == 2

\* rows the messages table holds when chats are opened one after the other
MaxRows == 3

\* milliseconds the clock advances in one step while a probe waits
TickMs == 2500

\* --------------------------------------------------------- program strings
ApologyLM == "Sorry, I encountered an error while processing your request."

ApologyOR == "Sorry, I encountered an error while processing your request. Please check your OpenRouter API key and try again."

NoKeyMsg == "OpenRouter API key not configured. Please set your API key in the settings."

NoResponse == "No response received"

Apology(c) == IF c = "lmstudio" THEN ApologyLM ELSE ApologyOR

\* ------------------------------------------------------------- wire format
\* texts a frame's choices[0].delta.content (or message.content) can carry
Texts == {"a", "b"}

\* the frame marker 'data: ' tested by line.startsWith
Marker == <<"data", ": ">>

\* the termination sentinel '[DONE]'
Sentinel == <<"[DONE", "]">>

\* whitespace removed by String.prototype.trim
Blank == {"\r", " "}

\* kinds of frame a server can send: a text frame, a frame whose delta has
\* no content ("e"), the sentinel ("D") and a frame whose payload is not JSON
FrameKinds == Texts \cup {"e", "D", "X"}

FrameText(k) == IF k \in Texts THEN k ELSE ""

\* "{d" stands for {"choices":[{"delta":{"content":" and "{m" for the same
\* with "message"; "}" closes either; <<"{", "}">> is an object without them
Payload(k) ==
  IF k \in Texts THEN <<"{d", k, "}">>
  ELSE IF k = "e" THEN <<"{", "}">>
  ELSE IF k = "D" THEN Sentinel
  ELSE <<"{d", "a">>

FrameLine(k, crlf) ==
  Marker \o Payload(k) \o (IF crlf THEN <<"\r">> ELSE <<>>) \o <<"\n">>

RECURSIVE Wire(_, _)
Wire(fs, crlf) ==
  IF fs = <<>> THEN <<>>
  ELSE FrameLine(Head(fs), crlf) \o Wire(Tail(fs), crlf)

FrameSeqs == UNION {[1..n -> FrameKinds] : n \in 0..MaxFrames}

\* bodies of a non-streaming response: a completion with content, one
\* without content, and a body that is not JSON
JsonBodies ==
  {<<"{m", t, "}">> : t \in Texts} \cup {<<"{", "}">>, <<"{m", "a">>}

\* ------------------------------------------------------- pure helper code
\* JSON.parse, with the two optional-chained lookups made on its result:
\* choices?.[0]?.delta?.content and choices?.[0]?.message?.content
ParseJSON(toks) ==
  IF Len(toks) = 3 /\ toks[1] \in {"{d", "{m"} /\ toks[2] \in Texts
     /\ toks[3] = "}"
    THEN [ok |-> TRUE,
          delta |-> IF toks[1] = "{d" THEN toks[2] ELSE "",
          message |-> IF toks[1] = "{m" THEN toks[2] ELSE ""]
  ELSE IF toks = <<"{", "}">>
    THEN [ok |-> TRUE, delta |-> "", message |-> ""]
  ELSE [ok |-> FALSE, delta |-> "", message |-> ""]

RECURSIVE TrimLeft(_)
TrimLeft(s) ==
  IF s # <<>> /\ Head(s) \in Blank THEN TrimLeft(Tail(s)) ELSE s

RECURSIVE TrimRight(_)
TrimRight(s) ==
  IF s # <<>> /\ s[Len(s)] \in Blank
    THEN TrimRight(SubSeq(s, 1, Len(s) - 1))
    ELSE s

Trim(s) == TrimRight(TrimLeft(s))

StartsWithMarker(line) ==
  Len(line) >= Len(Marker) /\ SubSeq(line, 1, Len(Marker)) = Marker

SliceMarker(line) == SubSeq(line, Len(Marker) + 1, Len(line))

RECURSIVE SplitNL(_)
SplitNL(s) ==
  IF \E i \in 1..Len(s) : s[i] = "\n"
    THEN LET i == CHOOSE j \in 1..Len(s) :
                    /\ s[j] = "\n"
                    /\ \A m \in 1..(j - 1) : s[m] # "\n"
         IN  <<SubSeq(s, 1, i - 1)>> \o SplitNL(SubSeq(s, i + 1, Len(s)))
    ELSE <<s>>

\* ---------------------------------------------------- settings collaborator
KeyArgs == {"", "k1"}

EnvKeys == {"", "k1"}

UserKeys == {"", "k2"}

encryptApiKey(key) == IF key = "" THEN <<>> ELSE <<"b64", key>>

decryptApiKey(enc) ==
  IF enc = <<>> THEN ""
  ELSE IF Len(enc) = 2 /\ enc[1] = "b64" THEN enc[2]
  ELSE ""

\* what the user_settings row can hold in openrouter_api_key
StoredKeys == {encryptApiKey(k) : k \in UserKeys} \cup {<<"?">>}

SettingsOutcomes == {"ok", "nouser", "rpcerror"}

\* getOpenRouterApiKey: getUserSettings().openrouterApiKey
getOpenRouterApiKey(stored, outcome) ==
  IF outcome = "ok" THEN decryptApiKey(stored) ELSE ""

\* mutant: the constructor forgets the environment's key
ConstructorNoEnv(arg, env) == arg

\* constructor: apiKey || OPENROUTER_API_KEY || ''
Constructor(arg, env) == IF arg # "" THEN arg ELSE env

VARIABLES
  apiKey,           \* OpenRouterAPI.apiKey
  storedKey,        \* user_settings.openrouter_api_key of the user
  builtWithKey,     \* history: the instance was constructed with a key
  everStored,       \* history: the user's row has held a usable key
  fetchedKey,       \* history: an operation fetched a non-empty key
  phase,            \* "idle" | "active" | "finished"
  op,               \* the operation in progress or last finished
  client,           \* "lmstudio" | "openrouter"
  stream,           \* options.stream
  pc,               \* where the operation resumes
  demand,           \* the consumer called next() and awaits its result
  httpOk,           \* history: response.ok of this call ("none" before)
  frames,           \* history: the frames the server sent
  body,             \* the response body
  pos,              \* number of body tokens the reader has handed out
  lines,            \* lines of the current chunk not yet processed
  chunkNo,          \* number of chunks read
  frameNo,          \* number of newlines passed by the line loop
  aligned,          \* history: every chunk so far ended at a newline
  decoded,          \* history: <<frame, chunk, text>> of each decoded text
  received,         \* the fragments delivered to the consumer
  thrown,           \* an exception reached the caller
  lockHeld,         \* the reader's lock
  requests,         \* HTTP requests issued by this call
  settingsFetches,  \* getOpenRouterApiKey calls made by this call
  keyAtStart,       \* history: apiKey when the call started
  failKind,         \* history: "none" | "net" | "http" | "json"
  failedAt,         \* history: <<received>> when the failure was caught
  doneAt,           \* history: the frame decoded as the sentinel, or 0
  ret,              \* result of a finished promise-returning operation
  pending,          \* the settings read in flight: <<>> or <<its result>>
  pulls,            \* history: next() calls the consumer has made
  elapsed,          \* milliseconds since isAvailable handed its request to fetch
  args,             \* the arguments of the sendMessage call whose body is built
  sentBody,         \* <<>>, or <<the body handed to fetch>>
  store,            \* the rows of the messages table, in created_at order
  created,          \* history: created[id] is the row as it was inserted
  chats,            \* the ids of the rows of the chats table
  currentChat,      \* ProjectProvider.currentChat ("" for null)
  parked,           \* the locals of the suspended sendMessage call
  cuts,             \* history: the sizes of the chunks this call has read
  nav,              \* the chat the page shows and the loadMessages calls in flight
  auth,             \* AuthProvider: its state, its initialization and its timers
  settingsCtx,      \* SettingsProvider: its state and the update in flight
  messages,         \* ProjectProvider.messages
  loadPending,      \* <<>>, or <<chat, rows>> of a loadMessages select in flight
  drv,              \* ChatPage: the state and the position of handleSendMessage
  trace,            \* history: what the current send has done so far
  sends             \* history: sends the page has accepted

clientVars == <<apiKey, storedKey, builtWithKey, everStored, fetchedKey, phase, op, client,
          stream, pc, demand, httpOk, frames, body, pos, lines, chunkNo,
          frameNo, aligned, decoded, received, thrown, lockHeld, requests,
          settingsFetches, keyAtStart, failKind, failedAt, doneAt, ret,
          pending, pulls, elapsed>>

\* the state outside the two client instances and their calls
bodyVars == <<args, sentBody>>

dataVars == <<store, created, chats, currentChat, messages, loadPending>>

pageVars == <<drv, trace, sends>>

pairVars == <<parked, cuts>>

otherVars == <<nav, auth, settingsCtx>>

extVars == <<bodyVars, dataVars, pageVars, pairVars, otherVars>>

vars == <<clientVars, extVars>>

instVars == <<apiKey, storedKey, builtWithKey, everStored, fetchedKey>>

readVars == <<httpOk, frames, body, pos, lines, chunkNo, frameNo, aligned,
              decoded, lockHeld, doneAt, elapsed>>

NoRet == [kind |-> "none", val |-> ""]

\* the state every operation starts from
ResetCall ==
  /\ httpOk' = "none"
  /\ frames' = <<>>
  /\ body' = <<>>
  /\ pos' = 0
  /\ lines' = <<>>
  /\ chunkNo' = 0
  /\ frameNo' = 0
  /\ aligned' = TRUE
  /\ decoded' = <<>>
  /\ received' = <<>>
  /\ thrown' = FALSE
  /\ lockHeld' = FALSE
  /\ keyAtStart' = apiKey
  /\ failKind' = "none"
  /\ failedAt' = <<>>
  /\ doneAt' = 0
  /\ elapsed' = 0

InitCall ==
  /\ fetchedKey = FALSE
  /\ phase = "idle"
  /\ op = "none"
  /\ client = "lmstudio"
  /\ stream = TRUE
  /\ pc = "done"
  /\ demand = FALSE
  /\ httpOk = "none"
  /\ frames = <<>>
  /\ body = <<>>
  /\ pos = 0
  /\ lines = <<>>
  /\ chunkNo = 0
  /\ frameNo = 0
  /\ aligned = TRUE
  /\ decoded = <<>>
  /\ received = <<>>
  /\ thrown = FALSE
  /\ lockHeld = FALSE
  /\ requests = <<>>
  /\ settingsFetches = 0
  /\ keyAtStart = ""
  /\ failKind = "none"
  /\ failedAt = <<>>
  /\ doneAt = 0
  /\ ret = NoRet
  /\ pending = <<>>
  /\ pulls = 0
  /\ elapsed = 0

\* new OpenRouterAPI(baseUrl, apiKey?) and new LMStudioAPI()
Construct ==
  \E arg \in KeyArgs, env \in EnvKeys :
    /\ apiKey = Constructor(arg, env)
    /\ builtWithKey = (arg # "" \/ env # "")

\* ------------------------------------------------- decisions of the code
\* mutant: return this.apiKey !== undefined
isConfiguredAlways(key) == TRUE

isConfigured(key) == key # ""

\* if (!this.apiKey): the settings collaborator is asked for the key
NeedsKey(key) == key = ""

\* mutant: the sentinel is not recognised and goes to JSON.parse
DecodeLineNoSentinel(line) ==
  IF StartsWithMarker(line)
    THEN LET parsed == ParseJSON(Trim(SliceMarker(line))) IN
         IF parsed.ok /\ parsed.delta # ""
           THEN [kind |-> "text", text |-> parsed.delta]
           ELSE [kind |-> "skip", text |-> ""]
    ELSE [kind |-> "skip", text |-> ""]

\* the for-loop body: what one line of a chunk makes the generator do
DecodeLine(line) ==
  IF StartsWithMarker(line)
    THEN LET data == Trim(SliceMarker(line)) IN
         IF data = Sentinel
           THEN [kind |-> "done", text |-> ""]
           ELSE LET parsed == ParseJSON(data) IN
                IF parsed.ok /\ parsed.delta # ""
                  THEN [kind |-> "text", text |-> parsed.delta]
                  ELSE [kind |-> "skip", text |-> ""]
    ELSE [kind |-> "skip", text |-> ""]

\* mutant: the chunk is appended to a buffer that is never cleared
DecodeChunkAccumulated(b, from, n) == SubSeq(b, 1, from + n)

\* decoder.decode(value) of the n bytes the read returned
DecodeChunk(b, from, n) == SubSeq(b, from + 1, from + n)

\* mutant: the non-streaming branch reads delta.content
DecodeBodyDelta(toks) ==
  LET parsed == ParseJSON(toks) IN
  IF parsed.ok THEN [kind |-> "text", text |-> parsed.delta]
               ELSE [kind |-> "throw", text |-> ""]

\* the non-streaming branch: data.choices?.[0]?.message?.content || ''
DecodeBody(toks) ==
  LET parsed == ParseJSON(toks) IN
  IF parsed.ok THEN [kind |-> "text", text |-> parsed.message]
               ELSE [kind |-> "throw", text |-> ""]

\* mutant: the status is not looked at
StatusIgnored(ok) == FALSE

\* if (!response.ok) throw ...
StatusThrows(ok) == ~ok

\* mutant: the catch clause logs and rethrows
OuterCatchRethrow(c) == [rethrow |-> TRUE, text |-> Apology(c)]

\* the catch clause around the request: what it yields, or that it rethrows
OuterCatch(c) == [rethrow |-> FALSE, text |-> Apology(c)]

\* mutant: result.value ?? 'No response received'
SimpleValueNullish(value) == value

\* result.value || 'No response received'
SimpleValue(value) == IF value = "" THEN NoResponse ELSE value

\* the request the client sends
Request(c, url, key) ==
  [client |-> c, url |-> url,
   auth |-> IF c = "openrouter" THEN key ELSE "",
   attribution |-> (c = "openrouter" /\ url = "chat/completions")]

\* ------------------------------------------------------- the request body
\* turns a caller can pass: rows of the messages table
Roles == {"user", "assistant", "system"}

Contents == {"", "hi"}

Turns == [id : {"", "m1"}, chat_id : {"c1"}, role : Roles, content : Contents,
          created_at : {"t1"}]

ModelIds == {"model-a"}

\* an option is <<>> when it is not supplied (or undefined), else <<value>>,
\* the value written as JSON.stringify writes it
Options == [temperature : {<<>>, <<"0">>, <<"1.2">>},
            maxTokens : {<<>>, <<"0">>, <<"256">>},
            stream : {<<>>, <<"true">>, <<"false">>}]

DefaultTemperature == "0.7"

DefaultMaxTokens == "2048"

DefaultStream == "true"

\* values JavaScript treats as false
Falsy == {"0", "false"}

\* mutant: options.x || default
DefaultByOr(opt, default) ==
  IF opt = <<>> \/ opt[1] \in Falsy THEN default ELSE opt[1]

\* const { x = default } = options: the default stands in for undefined only
Default(opt, default) == IF opt = <<>> THEN default ELSE opt[1]

\* messages.map(msg => ({ role: msg.role, content: msg.content }))
ConversationHistory(msgs) ==
  [i \in 1..Len(msgs) |->
     [role |-> msgs[i].role, content |-> msgs[i].content]]

\* the object given to JSON.stringify as the request body
RequestBody(msgs, model, options) ==
  [model |-> model,
   messages |-> ConversationHistory(msgs),
   temperature |-> Default(options.temperature, DefaultTemperature),
   max_tokens |-> Default(options.maxTokens, DefaultMaxTokens),
   stream |-> Default(options.stream, DefaultStream)]

NoArgs == [messages |-> <<>>, model |-> "", options |-> <<>>, client |-> ""]

PageChat == "c1"

NoDrv == [pc |-> "idle", loading |-> FALSE, chat |-> PageChat,
          provider |-> "lmstudio", model |-> "model-a", history |-> <<>>,
          userMessage |-> "", saved |-> 0, response |-> <<>>,
          last |-> "none"]

PageIdle ==
  /\ store = <<>>
  /\ created = <<>>
  /\ chats = {}
  /\ currentChat = ""
  /\ messages = <<>>
  /\ loadPending = <<>>
  /\ drv = NoDrv
  /\ trace = <<>>
  /\ sends = 0

\* the locals of a sendMessage call that has not been made
NoCall ==
  [phase |-> "idle", op |-> "none", client |-> "lmstudio", stream |-> TRUE,
   pc |-> "done", demand |-> FALSE, httpOk |-> "none", frames |-> <<>>,
   body |-> <<>>, pos |-> 0, lines |-> <<>>, chunkNo |-> 0, frameNo |-> 0,
   aligned |-> TRUE, decoded |-> <<>>, received |-> <<>>, thrown |-> FALSE,
   lockHeld |-> FALSE, requests |-> <<>>, settingsFetches |-> 0,
   keyAtStart |-> "", failKind |-> "none", failedAt |-> <<>>, doneAt |-> 0,
   ret |-> NoRet, pending |-> <<>>, pulls |-> 0, elapsed |-> 0,
   cuts |-> <<>>]

PairIdle ==
  /\ parked = NoCall
  /\ cuts = <<>>

\* no navigation between chats, no AuthProvider, no SettingsProvider
NoNav == [shown |-> "", loads |-> {}, visits |-> 0, failed |-> FALSE]

NoAuth == [pc |-> "unmounted"]

NoSettings == [pc |-> "unmounted"]

OtherIdle ==
  /\ nav = NoNav
  /\ auth = NoAuth
  /\ settingsCtx = NoSettings

ExtIdle ==
  /\ args = NoArgs
  /\ sentBody = <<>>
  /\ PageIdle
  /\ PairIdle
  /\ OtherIdle

\* sendMessage(messages, model, options) builds the body of its request
BuildBody ==
  /\ sentBody = <<>>
  /\ sentBody' = <<RequestBody(args.messages, args.model, args.options)>>
  /\ UNCHANGED <<clientVars, args, dataVars, pageVars, pairVars, otherVars>>

\* the caller is done with the call and makes another
NextCall(ms, m, o, c) ==
  /\ sentBody # <<>>
  /\ args' = [messages |-> ms, model |-> m, options |-> o, client |-> c]
  /\ sentBody' = <<>>
  /\ UNCHANGED <<clientVars, dataVars, pageVars, pairVars, otherVars>>

\* mutant: reader.releaseLock() follows the loop instead of standing in a
\* finally clause, so only break reaches it
LockAfterLoopOnly(exit) == exit # "break"

\* try { while (true) ... } finally { reader.releaseLock() }: whether the
\* lock is held once control has left the loop by break, return or throw
LockAfter(exit) == FALSE

\* ------------------------------------------------ generator control flow
\* mutant: the fragment is pushed to the consumer and the producer runs on
YieldAndRunOn(text, next) ==
  /\ received' = Append(received, text)
  /\ demand' = demand
  /\ pc' = next
  /\ UNCHANGED <<thrown, phase>>

\* yield: the fragment is the result of the consumer's next() and the
\* generator is suspended until the consumer calls next() again
Yield(text, next) ==
  /\ received' = Append(received, text)
  /\ demand' = FALSE
  /\ pc' = next
  /\ UNCHANGED <<thrown, phase>>

Return ==
  /\ pc' = "done"
  /\ demand' = FALSE
  /\ phase' = IF op = "sendMessage" THEN "finished" ELSE phase
  /\ UNCHANGED <<received, thrown>>

\* control reaches catch (error) of sendMessage
Catch(kind) ==
  /\ failKind' = kind
  /\ failedAt' = <<received>>
  /\ IF OuterCatch(client).rethrow
       THEN /\ thrown' = TRUE
            /\ pc' = "done"
            /\ demand' = FALSE
            /\ phase' = IF op = "sendMessage" THEN "finished" ELSE phase
            /\ UNCHANGED received
       ELSE Yield(OuterCatch(client).text, "caught")

Sending == phase = "active" /\ op \in {"sendMessage", "getSimpleResponse"}

\* ------------------------------------------------------------ sendMessage
\* a caller creates the generator: no code of its body runs yet
StartSend(c, s) ==
  /\ phase # "active"
  /\ phase' = "active"
  /\ op' = "sendMessage"
  /\ client' = c
  /\ stream' = s
  /\ pc' = "start"
  /\ demand' = FALSE
  /\ ResetCall
  /\ requests' = <<>>
  /\ settingsFetches' = 0
  /\ ret' = NoRet
  /\ pending' = <<>>
  /\ pulls' = 0
  /\ UNCHANGED instVars
  /\ UNCHANGED extVars

\* the consumer asks for the next fragment
ConsumerNext ==
  /\ phase = "active"
  /\ op = "sendMessage"
  /\ ~demand
  /\ pc # "done"
  /\ demand' = TRUE
  /\ pulls' = pulls + 1
  /\ UNCHANGED <<instVars, readVars, phase, op, client, stream, pc, received,
                 thrown, requests, settingsFetches, keyAtStart, failKind,
                 failedAt, ret, pending>>
  /\ UNCHANGED extVars

\* if (!this.isConfigured()) yield ...; otherwise the request is built and
\* handed to fetch: no await lies between the test and the call of fetch
SendConfigured(key) ==
  IF ~isConfigured(key)
    THEN /\ Yield(NoKeyMsg, "nokey")
         /\ UNCHANGED requests
    ELSE /\ pc' = "fetch"
         /\ requests' = Append(requests,
                                Request("openrouter", "chat/completions", key))
         /\ UNCHANGED <<received, demand, thrown, phase>>

\* OpenRouterAPI.sendMessage from its start: with a key it goes on to the
\* request, without one it calls getOpenRouterApiKey and awaits the answer
SendResolveKey ==
  /\ Sending
  /\ client = "openrouter"
  /\ pc = "start"
  /\ demand
  /\ IF NeedsKey(apiKey)
       THEN /\ \E outcome \in SettingsOutcomes :
                 pending' = <<getOpenRouterApiKey(storedKey, outcome)>>
            /\ settingsFetches' = settingsFetches + 1
            /\ pc' = "settings"
            /\ UNCHANGED <<requests, received, demand, thrown, phase>>
       ELSE /\ SendConfigured(apiKey)
            /\ UNCHANGED <<settingsFetches, pending>>
  /\ UNCHANGED <<instVars, readVars, op, client, stream, keyAtStart, failKind,
                 failedAt, ret, pulls>>
  /\ UNCHANGED extVars

\* the awaited getOpenRouterApiKey settles: this.apiKey = <its result>
SendKeyResolved ==
  /\ Sending
  /\ client = "openrouter"
  /\ pc = "settings"
  /\ demand
  /\ apiKey' = pending[1]
  /\ fetchedKey' = (fetchedKey \/ pending[1] # "")
  /\ pending' = <<>>
  /\ SendConfigured(pending[1])
  /\ UNCHANGED <<storedKey, builtWithKey, everStored, readVars, op, client,
                 stream, settingsFetches, keyAtStart, failKind, failedAt, ret,
                 pulls>>
  /\ UNCHANGED extVars

\* the responses a chat-completions request can get
\* net: the fetch rejects; drop: the connection drops while response.json()
\* reads the body (a dropped streaming body is a failed read, see SendRead)
Responses(s, FS) ==
  {[net |-> TRUE, ok |-> FALSE, hasBody |-> FALSE, drop |-> FALSE,
    frames |-> <<>>, body |-> <<>>]}
  \cup {[net |-> FALSE, ok |-> FALSE, hasBody |-> TRUE, drop |-> FALSE,
         frames |-> <<>>, body |-> <<"error">>]}
  \cup (IF s
          THEN {[net |-> FALSE, ok |-> TRUE, hasBody |-> TRUE,
                 drop |-> FALSE, frames |-> f, body |-> Wire(f, c)] :
                   f \in FS, c \in BOOLEAN}
               \cup {[net |-> FALSE, ok |-> TRUE, hasBody |-> FALSE,
                      drop |-> FALSE, frames |-> <<>>, body |-> <<>>]}
          ELSE {[net |-> FALSE, ok |-> TRUE, hasBody |-> TRUE, drop |-> d,
                 frames |-> <<>>, body |-> j] :
                   j \in JsonBodies, d \in BOOLEAN})

\* fetch(.../chat/completions), the status check and the choice of branch
SendFetch(FS) ==
  /\ Sending
  /\ demand
  /\ \/ client = "lmstudio" /\ pc = "start"
     \/ pc = "fetch"
  /\ requests' = IF client = "lmstudio"
                    THEN Append(requests,
                                Request("lmstudio", "chat/completions", ""))
                    ELSE requests
  /\ \E r \in Responses(stream, FS) :
       /\ httpOk' = IF r.net THEN "none" ELSE IF r.ok THEN "true" ELSE "false"
       /\ IF r.net
            THEN /\ Catch("net")
                 /\ UNCHANGED <<frames, body, lockHeld>>
          ELSE IF StatusThrows(r.ok)
            THEN /\ Catch("http")
                 /\ UNCHANGED <<frames, body, lockHeld>>
          ELSE IF stream /\ r.hasBody
            THEN /\ frames' = r.frames
                 /\ body' = r.body
                 /\ lockHeld' = TRUE
                 /\ pc' = "read"
                 /\ UNCHANGED <<received, demand, thrown, phase, failKind,
                                failedAt>>
          ELSE /\ body' = r.body
               /\ UNCHANGED <<frames, lockHeld>>
               /\ IF r.drop
                    THEN Catch("net")
                  ELSE IF DecodeBody(r.body).kind = "text"
                    THEN /\ Yield(DecodeBody(r.body).text, "yielded")
                         /\ UNCHANGED <<failKind, failedAt>>
                  ELSE Catch("json")
  /\ UNCHANGED <<instVars, op, client, stream, pos, lines, chunkNo, frameNo,
                 aligned, decoded, doneAt, settingsFetches, keyAtStart, ret,
                 pending, pulls, elapsed>>
  /\ UNCHANGED extVars

\* await reader.read(): a chunk, the end of the stream, or a failed read
SendReadCall ==
  /\ Sending
  /\ demand
  /\ pc = "read"
  /\ \/ /\ lockHeld' = LockAfter("throw")
        /\ Catch("net")
        /\ UNCHANGED <<pos, lines, chunkNo, aligned>>
     \/ /\ pos = Len(body)
        /\ lockHeld' = LockAfter("break")
        /\ Return
        /\ UNCHANGED <<pos, lines, chunkNo, aligned, failKind, failedAt>>
     \/ \E n \in 1..(Len(body) - pos) :
          /\ lines' = SplitNL(DecodeChunk(body, pos, n))
          /\ pos' = pos + n
          /\ chunkNo' = chunkNo + 1
          /\ aligned' = (aligned /\ body[pos + n] = "\n")
          /\ pc' = "line"
          /\ UNCHANGED <<lockHeld, received, demand, thrown, phase, failKind,
                         failedAt>>
  /\ UNCHANGED <<instVars, op, client, stream, httpOk, frames, body, frameNo,
                 decoded, doneAt, requests, settingsFetches, keyAtStart, ret,
                 pending, pulls, elapsed>>

SendRead ==
  /\ SendReadCall
  /\ UNCHANGED extVars

\* one turn of for (const line of lines)
SendLine ==
  /\ Sending
  /\ demand
  /\ pc = "line"
  /\ lines # <<>>
  /\ LET line == Head(lines)
         rest == Tail(lines)
         next == IF rest = <<>> THEN "read" ELSE "line"
         d    == DecodeLine(line)
     IN
     /\ lines' = rest
     /\ frameNo' = frameNo + (IF rest = <<>> THEN 0 ELSE 1)
     /\ IF d.kind = "done"
          THEN /\ doneAt' = frameNo + 1
               /\ lockHeld' = LockAfter("return")
               /\ Return
               /\ UNCHANGED <<decoded, failKind, failedAt>>
        ELSE IF d.kind = "text"
          THEN /\ decoded' = Append(decoded, <<frameNo + 1, chunkNo, d.text>>)
               /\ Yield(d.text, next)
               /\ UNCHANGED <<doneAt, lockHeld, failKind, failedAt>>
        ELSE IF d.kind = "throw"
          THEN /\ lockHeld' = LockAfter("throw")
               /\ Catch("json")
               /\ UNCHANGED <<doneAt, decoded>>
        ELSE /\ pc' = next
             /\ UNCHANGED <<doneAt, lockHeld, decoded, received, demand,
                            thrown, phase, failKind, failedAt>>
  /\ UNCHANGED <<instVars, op, client, stream, httpOk, frames, body, pos,
                 chunkNo, aligned, requests, settingsFetches, keyAtStart, ret,
                 pending, pulls, elapsed>>
  /\ UNCHANGED extVars

\* the generator is resumed after its last yield and runs to its end
SendReturn ==
  /\ Sending
  /\ demand
  /\ pc \in {"nokey", "yielded", "caught"}
  /\ Return
  /\ UNCHANGED <<instVars, readVars, op, client, stream, requests,
                 settingsFetches, keyAtStart, failKind, failedAt, ret,
                 pending, pulls>>
  /\ UNCHANGED extVars

\* ------------------------------------------------------ getSimpleResponse
\* sendMessage(messages, model, {stream: false}) and generator.next()
StartSimpleCall(c) ==
  /\ phase # "active"
  /\ phase' = "active"
  /\ op' = "getSimpleResponse"
  /\ client' = c
  /\ stream' = FALSE
  /\ pc' = "start"
  /\ demand' = TRUE
  /\ ResetCall
  /\ requests' = <<>>
  /\ settingsFetches' = 0
  /\ ret' = NoRet
  /\ pending' = <<>>
  /\ pulls' = 1
  /\ UNCHANGED instVars

\* getSimpleResponse called by a caller the model leaves out
StartSimple(c) ==
  /\ StartSimpleCall(c)
  /\ UNCHANGED extVars

\* the awaited next() settles and getSimpleResponse returns
SimpleReturn ==
  /\ phase = "active"
  /\ op = "getSimpleResponse"
  /\ ~demand
  /\ ret' = IF thrown THEN [kind |-> "throw", val |-> ""]
            ELSE IF received = <<>>
              THEN [kind |-> "value", val |-> SimpleValue("")]
            ELSE [kind |-> "value", val |-> SimpleValue(received[Len(received)])]
  /\ phase' = "finished"
  /\ UNCHANGED <<instVars, readVars, op, client, stream, pc, demand, received,
                 thrown, requests, settingsFetches, keyAtStart, failKind,
                 failedAt, pending, pulls>>
  /\ UNCHANGED extVars

\* ---------------------------------------- the other cloud operations
\* OpenRouterAPI.isConfigured()
IsConfigured ==
  /\ phase # "active"
  /\ phase' = "finished"
  /\ op' = "isConfigured"
  /\ client' = "openrouter"
  /\ stream' = FALSE
  /\ pc' = "done"
  /\ demand' = FALSE
  /\ ResetCall
  /\ requests' = <<>>
  /\ settingsFetches' = 0
  /\ ret' = [kind |-> "value",
             val |-> IF isConfigured(apiKey) THEN "true" ELSE "false"]
  /\ pending' = <<>>
  /\ pulls' = 0
  /\ UNCHANGED instVars
  /\ UNCHANGED extVars

\* what getModels / getUsage return when no key can be had
Unconfigured(name) == IF name = "getModels" THEN "empty" ELSE "null"

PromiseUrl(name) == IF name = "getUsage" THEN "auth/key" ELSE "models"

\* getModels / getUsage once the key is known: the early return, or the
\* request handed to fetch
PromiseConfigured(name, key, sent) ==
  IF ~isConfigured(key)
    THEN /\ phase' = "finished"
         /\ pc' = "done"
         /\ ret' = [kind |-> "value", val |-> Unconfigured(name)]
         /\ requests' = sent
    ELSE /\ phase' = "active"
         /\ pc' = "fetch"
         /\ ret' = NoRet
         /\ requests' = Append(sent,
                                Request("openrouter", PromiseUrl(name), key))

\* the start of OpenRouterAPI.getModels / getUsage
PromiseStart(name) ==
  /\ phase # "active"
  /\ op' = name
  /\ client' = "openrouter"
  /\ stream' = FALSE
  /\ demand' = FALSE
  /\ pulls' = 0
  /\ ResetCall
  /\ IF NeedsKey(apiKey)
       THEN /\ \E outcome \in SettingsOutcomes :
                 pending' = <<getOpenRouterApiKey(storedKey, outcome)>>
            /\ settingsFetches' = 1
            /\ phase' = "active"
            /\ pc' = "settings"
            /\ ret' = NoRet
            /\ requests' = <<>>
       ELSE /\ pending' = <<>>
            /\ settingsFetches' = 0
            /\ PromiseConfigured(name, apiKey, <<>>)
  /\ UNCHANGED instVars
  /\ UNCHANGED extVars

\* the start of LMStudioAPI.getModels: the request is handed to fetch
LocalModelsStart ==
  /\ phase # "active"
  /\ phase' = "active"
  /\ op' = "getModels"
  /\ client' = "lmstudio"
  /\ stream' = FALSE
  /\ pc' = "fetch"
  /\ demand' = FALSE
  /\ pulls' = 0
  /\ ResetCall
  /\ requests' = <<Request("lmstudio", "models", "")>>
  /\ settingsFetches' = 0
  /\ pending' = <<>>
  /\ ret' = NoRet
  /\ UNCHANGED instVars
  /\ UNCHANGED extVars

\* the awaited getOpenRouterApiKey of getModels / getUsage settles
PromiseKeyResolved ==
  /\ phase = "active"
  /\ op \in {"getModels", "getUsage"}
  /\ pc = "settings"
  /\ apiKey' = pending[1]
  /\ fetchedKey' = (fetchedKey \/ pending[1] # "")
  /\ pending' = <<>>
  /\ PromiseConfigured(op, pending[1], requests)
  /\ UNCHANGED <<storedKey, builtWithKey, everStored, readVars, op, client,
                 stream, demand, received, thrown, settingsFetches, keyAtStart,
                 failKind, failedAt, pulls>>
  /\ UNCHANGED extVars

\* catalog bodies: a list of models, a body without data, a body not JSON
CatalogBodies == {"list", "nodata", "notjson"}

\* mutant: the status error is thrown outside the try block
ModelsResultThrows(net, ok, b) ==
  IF net THEN "empty"
  ELSE IF ~ok THEN "throw"
  ELSE IF b = "list" THEN "models" ELSE "empty"

\* getModels after the request: data.data?.map(...) || [], or [] from catch
ModelsResult(net, ok, b) ==
  IF net \/ ~ok \/ b # "list" THEN "empty" ELSE "models"

\* mutant: the body is returned whatever the status
UsageResultAnyStatus(net, ok, b) ==
  IF net THEN "null"
  ELSE IF b = "notjson" THEN "null" ELSE "usage"

\* getUsage after the request
UsageResult(net, ok, b) ==
  IF net THEN "null"
  ELSE IF ok THEN (IF b = "notjson" THEN "null" ELSE "usage")
  ELSE "null"

\* what the caller of a promise-returning operation gets
Settle(val) ==
  IF val = "throw" THEN [kind |-> "throw", val |-> ""]
                   ELSE [kind |-> "value", val |-> val]

GetModelsStart == PromiseStart("getModels")

GetUsageStart == PromiseStart("getUsage")

\* fetch(.../models) or fetch(.../auth/key) and the handling of its result
PromiseFetch ==
  /\ phase = "active"
  /\ op \in {"getModels", "getUsage"}
  /\ pc = "fetch"
  /\ \E net \in BOOLEAN, ok \in BOOLEAN, b \in CatalogBodies :
       /\ httpOk' = IF net THEN "none" ELSE IF ok THEN "true" ELSE "false"
       /\ body' = <<b>>
       /\ ret' = Settle(IF op = "getModels" THEN ModelsResult(net, ok, b)
                                             ELSE UsageResult(net, ok, b))
  /\ phase' = "finished"
  /\ pc' = "done"
  /\ UNCHANGED <<instVars, op, client, stream, demand, frames, pos,
                 lines, chunkNo, frameNo, aligned, decoded, received, thrown,
                 lockHeld, settingsFetches, keyAtStart, failKind, failedAt,
                 doneAt, requests, pending, pulls, elapsed>>
  /\ UNCHANGED extVars

\* ------------------------------------------------ LMStudioAPI.isAvailable
\* AbortSignal.timeout(5000)
ProbeTimeoutMs == 5000

\* mutant: the request is sent without the abort signal
ProbeNeverExpires(t) == FALSE

\* the abort signal fires: the time given to AbortSignal.timeout has passed
ProbeExpired(t) == t >= ProbeTimeoutMs

\* what isAvailable returns: response.ok, or false from the catch clause
AvailableResult(net, ok, aborted) ==
  IF net \/ aborted THEN "false" ELSE IF ok THEN "true" ELSE "false"

Probing == phase = "active" /\ op = "isAvailable" /\ pc = "fetch"

\* isAvailable is called: GET /v1/models is handed to fetch with the signal
ProbeStart ==
  /\ phase # "active"
  /\ phase' = "active"
  /\ op' = "isAvailable"
  /\ client' = "lmstudio"
  /\ stream' = FALSE
  /\ pc' = "fetch"
  /\ demand' = FALSE
  /\ pulls' = 0
  /\ ResetCall
  /\ requests' = <<Request("lmstudio", "models", "")>>
  /\ settingsFetches' = 0
  /\ pending' = <<>>
  /\ ret' = NoRet
  /\ UNCHANGED instVars
  /\ UNCHANGED extVars

\* time passes while the endpoint has not answered
ProbeTick ==
  /\ Probing
  /\ ~ProbeExpired(elapsed)
  /\ elapsed' = IF elapsed + TickMs > ProbeTimeoutMs THEN ProbeTimeoutMs
                                                     ELSE elapsed + TickMs
  /\ UNCHANGED <<instVars, phase, op, client, stream, pc, demand, httpOk,
                 frames, body, pos, lines, chunkNo, frameNo, aligned, decoded,
                 received, thrown, lockHeld, requests, settingsFetches,
                 keyAtStart, failKind, failedAt, doneAt, ret, pending, pulls>>
  /\ UNCHANGED extVars

\* the endpoint answers, or the connection fails, before the signal fires
ProbeRespond ==
  /\ Probing
  /\ ~ProbeExpired(elapsed)
  /\ \E net \in BOOLEAN, ok \in BOOLEAN :
       /\ httpOk' = IF net THEN "none" ELSE IF ok THEN "true" ELSE "false"
       /\ failKind' = IF net THEN "net" ELSE "none"
       /\ ret' = Settle(AvailableResult(net, ok, FALSE))
  /\ phase' = "finished"
  /\ pc' = "done"
  /\ UNCHANGED <<instVars, op, client, stream, demand, frames, body, pos,
                 lines, chunkNo, frameNo, aligned, decoded, received, thrown,
                 lockHeld, requests, settingsFetches, keyAtStart, failedAt,
                 doneAt, pending, pulls, elapsed>>
  /\ UNCHANGED extVars

\* the signal fires: fetch rejects and the catch clause returns false
ProbeAbort ==
  /\ Probing
  /\ ProbeExpired(elapsed)
  /\ failKind' = "timeout"
  /\ ret' = Settle(AvailableResult(FALSE, FALSE, TRUE))
  /\ phase' = "finished"
  /\ pc' = "done"
  /\ UNCHANGED <<instVars, readVars, op, client, stream, demand, received,
                 thrown, requests, settingsFetches, keyAtStart, failedAt,
                 pending, pulls>>
  /\ UNCHANGED extVars

\* SettingsModal.saveSettings: updateSettings, then the key is handed to the
\* client when it is not empty
SaveSettings(key) ==
  /\ \E saved \in BOOLEAN :
       IF saved
         THEN /\ storedKey' = encryptApiKey(key)
              /\ apiKey' = IF key # "" THEN key ELSE apiKey
              /\ everStored' = (everStored \/ key # "")
         ELSE UNCHANGED <<storedKey, apiKey, everStored>>
  /\ UNCHANGED <<builtWithKey, fetchedKey, readVars, phase, op, client, stream, pc, demand,
                 received, thrown, requests, settingsFetches, keyAtStart,
                 failKind, failedAt, ret, pending, pulls>>
  /\ UNCHANGED extVars

\* ------------------------------------------------- the conversation driver
ChatIds == {"c1", "c2"}

\* chats.model_provider, and a value the check constraint would refuse
Providers == {"lmstudio", "openrouter", "other"}

\* chats.model_name
ChatModels == {"model-a", "model-b"}

\* what the input box can hold when the form is submitted
Inputs == {<<>>, <<" ">>, <<"hi">>, <<" ", "hi", " ">>}

\* the row the database makes of an insert: id and created_at are defaults
NewRow(n, c, r, t) ==
  [id |-> n, chat_id |-> c, role |-> r, content |-> t, created_at |-> n]

\* mutant: the insert is an upsert that rewrites the newest row
InsertRowOverLast(rows, row) ==
  IF rows = <<>> THEN <<row>>
  ELSE [rows EXCEPT ![Len(rows)] =
          [row EXCEPT !.id = rows[Len(rows)].id,
                      !.created_at = rows[Len(rows)].created_at]]

\* supabase.from('messages').insert([...])
InsertRow(rows, row) == Append(rows, row)

\* chat_id uuid REFERENCES chats(id) ON DELETE CASCADE
RowsWithoutChat(rows, c) == SelectSeq(rows, LAMBDA r : r.chat_id # c)

RECURSIVE OrderByCreatedAt(_)
OrderByCreatedAt(S) ==
  IF S = {} THEN <<>>
  ELSE LET m == CHOOSE r \in S : \A q \in S : r.created_at <= q.created_at
       IN  <<m>> \o OrderByCreatedAt(S \ {m})

\* select('*').eq('chat_id', chatId).order('created_at', {ascending: true})
SelectMessages(rows, c) ==
  OrderByCreatedAt({rows[i] : i \in {j \in 1..Len(rows) : rows[j].chat_id = c}})

\* mutant: the assistant turn is written without waiting for the client
AfterUserEager(provider) == "asstInsert"

\* getAIResponse: a client for a known provider, null for any other
AfterUser(provider) == IF provider \in {"lmstudio", "openrouter"}
                         THEN "client" ELSE "final"

\* if (response) await sendMessage(response, 'assistant', chat.id)
AfterResponse(text) == IF text # "" THEN "asstInsert" ELSE "final"

\* handleSendMessage up to its first await
Submit(inp) ==
  /\ LET userMessage == Trim(inp) IN
     IF userMessage = <<>> \/ drv.loading
       THEN /\ drv' = [drv EXCEPT !.last = "ignored"]
            /\ UNCHANGED <<trace, sends>>
       ELSE /\ sends < MaxSends
            /\ drv' = [drv EXCEPT !.pc = "userInsert", !.loading = TRUE,
                                  !.userMessage = userMessage[1],
                                  !.history = messages,
                                  !.saved = 0, !.response = <<>>,
                                  !.last = "accepted"]
            /\ trace' = <<>>
            /\ sends' = sends + 1
  /\ UNCHANGED <<clientVars, bodyVars, pairVars, otherVars, dataVars>>

\* the database handles the insert made by ProjectProvider.sendMessage
DbInsert(role, text, event, next) ==
  \E ok \in BOOLEAN :
    LET done == ok /\ drv.chat \in chats
        n    == Len(created) + 1
        row  == NewRow(n, drv.chat, role, text)
    IN
    /\ store' = IF done THEN InsertRow(store, row) ELSE store
    /\ created' = IF done THEN Append(created, [row |-> row, send |-> sends])
                          ELSE created
    /\ drv' = [drv EXCEPT !.pc = next, !.saved = IF done THEN n ELSE 0]
    /\ trace' = Append(trace, IF done THEN event ELSE event \o "Failed")

\* ProjectProvider.sendMessage after the insert: the local append
LocalAppend ==
  messages' = IF drv.saved # 0 /\ drv.chat = currentChat
                THEN Append(messages, created[drv.saved].row)
                ELSE messages

\* sendMessage(userMessage, 'user', chat.id): the insert
DrvUserInsert ==
  /\ drv.pc = "userInsert"
  /\ DbInsert("user", drv.userMessage, "user", "userReturn")
  /\ UNCHANGED <<clientVars, bodyVars, pairVars, otherVars, chats, currentChat, messages,
                 loadPending, sends>>

\* mutant: every chat is answered by the local client
ClientOfLocal(provider) == "lmstudio"

\* getAIResponse: lmstudioAPI for 'lmstudio', openRouterAPI for 'openrouter'
ClientOf(provider) == provider

\* getAIResponse: messages.concat([{id: '', chat_id: chat.id, role: 'user',
\* content: message, created_at: ...}]); 0 stands for the empty id
WithUserTurn(msgs, c, text) ==
  Append(msgs, [id |-> 0, chat_id |-> c, role |-> "user", content |-> text,
                created_at |-> 0])

\* getSimpleResponse(messages, model): sendMessage(messages, model,
\* {stream: false})
SimpleArgs(msgs, model, c) ==
  [messages |-> msgs, model |-> model,
   options |-> [temperature |-> <<>>, maxTokens |-> <<>>,
                stream |-> <<"false">>],
   client |-> c]

\* sendMessage returns to handleSendMessage, which calls getAIResponse
DrvUserReturn ==
  /\ drv.pc = "userReturn"
  /\ LocalAppend
  /\ LET next == AfterUser(drv.provider) IN
     IF next = "client"
       THEN /\ StartSimpleCall(ClientOf(drv.provider))
            /\ args' = SimpleArgs(WithUserTurn(drv.history, drv.chat,
                                                drv.userMessage),
                                   drv.model, ClientOf(drv.provider))
            /\ drv' = [drv EXCEPT !.pc = "client"]
            /\ trace' = Append(trace, "invoke")
       ELSE /\ drv' = [drv EXCEPT !.pc = next]
            /\ UNCHANGED <<clientVars, trace, args>>
  /\ UNCHANGED <<sentBody, pairVars, otherVars, store, created, chats, currentChat, loadPending,
                 sends>>

\* getSimpleResponse has returned: getAIResponse hands on its result, or
\* the apology of its own catch clause
DrvResponse ==
  /\ drv.pc = "client"
  /\ op = "getSimpleResponse"
  /\ phase = "finished"
  /\ LET text == IF ret.kind = "throw" THEN ApologyLM ELSE ret.val IN
     drv' = [drv EXCEPT !.response = <<text>>, !.pc = AfterResponse(text)]
  /\ trace' = Append(trace, "response")
  /\ UNCHANGED <<clientVars, bodyVars, pairVars, otherVars, dataVars, sends>>

\* sendMessage(response, 'assistant', chat.id): the insert
DrvAsstInsert ==
  /\ drv.pc = "asstInsert"
  /\ DbInsert("assistant",
              IF drv.response = <<>> THEN "" ELSE drv.response[1],
              "assistant", "asstReturn")
  /\ UNCHANGED <<clientVars, bodyVars, pairVars, otherVars, chats, currentChat, messages,
                 loadPending, sends>>

DrvAsstReturn ==
  /\ drv.pc = "asstReturn"
  /\ LocalAppend
  /\ drv' = [drv EXCEPT !.pc = "final"]
  /\ UNCHANGED <<clientVars, bodyVars, pairVars, otherVars, store, created, chats, currentChat,
                 loadPending, trace, sends>>

\* mutant: the finally clause does not reset the flag
DrvFinallyKeepsLoading ==
  /\ drv.pc = "final"
  /\ drv' = [drv EXCEPT !.pc = "idle"]
  /\ UNCHANGED <<clientVars, bodyVars, pairVars, otherVars, dataVars, trace, sends>>

\* finally { setLoading(false) }
DrvFinally ==
  /\ drv.pc = "final"
  /\ drv' = [drv EXCEPT !.pc = "idle", !.loading = FALSE]
  /\ UNCHANGED <<clientVars, bodyVars, pairVars, otherVars, dataVars, trace, sends>>

\* ProjectProvider.deleteChat, with the cascade to the chat's messages
DeleteChat(c) ==
  /\ c \in chats
  /\ chats' = chats \ {c}
  /\ store' = RowsWithoutChat(store, c)
  /\ currentChat' = IF currentChat = c THEN "" ELSE currentChat
  /\ messages' = IF currentChat = c THEN <<>> ELSE messages
  /\ UNCHANGED <<clientVars, bodyVars, pairVars, otherVars, created, loadPending, pageVars>>

\* loadChatDetails: setCurrentChat(data)
SetCurrentChat ==
  /\ PageChat \in chats
  /\ currentChat' = PageChat
  /\ UNCHANGED <<clientVars, bodyVars, pairVars, otherVars, store, created, chats, messages,
                 loadPending, pageVars>>

\* loadMessages(chatId): the select
LoadStart(c) ==
  /\ loadPending = <<>>
  /\ loadPending' = <<c, SelectMessages(store, c)>>
  /\ UNCHANGED <<clientVars, bodyVars, pairVars, otherVars, store, created, chats, currentChat,
                 messages, pageVars>>

\* loadMessages(chatId): setMessages(data || [])
LoadDone ==
  /\ loadPending # <<>>
  /\ messages' = loadPending[2]
  /\ loadPending' = <<>>
  /\ UNCHANGED <<clientVars, bodyVars, pairVars, otherVars, store, created, chats, currentChat,
                 pageVars>>

\* ------------------------------------------- opening one chat after another
\* a call of loadMessages or loadChatDetails that awaits its select
Load(kind, c, rows) ==
  [kind |-> kind, chat |-> c,
   data |-> IF kind = "messages" THEN SelectMessages(rows, c) ELSE <<>>]

\* useEffect(..., [chatId]) of ChatPage runs for a new chatId:
\* loadMessages(chatId) and loadChatDetails() are called
Navigate(c) ==
  /\ c # nav.shown
  /\ nav.visits < MaxVisits
  /\ nav' = [nav EXCEPT !.shown = c, !.visits = nav.visits + 1,
                        !.loads = nav.loads \cup {Load("messages", c, store),
                                                  Load("chat", c, store)}]
  /\ UNCHANGED <<clientVars, bodyVars, dataVars, pageVars, pairVars, auth,
                 settingsCtx>>

\* a row is inserted into messages; the realtime subscription of the chat
\* shown answers an insert into that chat with loadMessages(chatId)
RemoteInsert(c) ==
  /\ Len(created) < MaxRows
  /\ LET row  == NewRow(Len(created) + 1, c, "user", "hi")
         rows == InsertRow(store, row)
     IN
     /\ store' = rows
     /\ created' = Append(created, [row |-> row, send |-> 0])
     /\ nav' = IF c = nav.shown
                THEN [nav EXCEPT !.loads = nav.loads
                                            \cup {Load("messages", c, rows)}]
                ELSE nav
  /\ UNCHANGED <<clientVars, bodyVars, chats, currentChat, messages,
                 loadPending, pageVars, pairVars, auth, settingsCtx>>

\* the select of a call in flight is answered and the call runs to its
\* end: setMessages(data || []) or setCurrentChat(data), nothing on an error
LoadReturn ==
  /\ \E l \in nav.loads, ok \in BOOLEAN :
       /\ nav' = [nav EXCEPT !.loads = nav.loads \ {l},
                             !.failed = nav.failed \/ ~ok]
       /\ messages' = IF ok /\ l.kind = "messages" THEN l.data
                                                     ELSE messages
       /\ currentChat' = IF ok /\ l.kind = "chat" THEN l.chat
                                                  ELSE currentChat
  /\ UNCHANGED <<clientVars, bodyVars, store, created, chats, loadPending,
                 pageVars, pairVars, auth, settingsCtx>>

\* ------------------------------------------------------ SettingsProvider
Themes == {"light", "dark"}

SettingModels == {"m1", "m2"}

\* Settings: theme is kept in localStorage, defaultModel stands for the
\* settings kept on the server
SettingsValues == [theme : Themes, defaultModel : SettingModels]

\* Partial<Settings>: a key that is absent is <<>>
SettingsUpdates == [theme : {<<>>} \cup {<<t>> : t \in Themes},
                    defaultModel : {<<>>} \cup {<<m>> : m \in SettingModels}]

defaultSettingsWithTheme == [theme |-> "light", defaultModel |-> "m1"]

\* { ...settings, ...updates }
Merged(old, updates) ==
  [theme |-> IF updates.theme = <<>> THEN old.theme ELSE updates.theme[1],
   defaultModel |-> IF updates.defaultModel = <<>> THEN old.defaultModel
                    ELSE updates.defaultModel[1]]

\* const { theme, ...serverSettings } = updates;
\* Object.keys(serverSettings).length > 0
HasServerSettings(updates) == updates.defaultModel # <<>>

\* updateUserSettings: true when the user is known and the rpc reports no
\* error, false otherwise; it does not throw
updateUserSettings(outcome) == outcome = "ok"

\* mutant: the optimistic value is left in place when the server refuses
KeepOptimistic(before, current) == current

\* setSettings(settings) in the failure path: settings is the value of the
\* render that made the call
Reverted(before, current) == before

NoUpdate == [made |-> FALSE, success |-> FALSE, thrown |-> FALSE,
             alone |-> TRUE, before |-> defaultSettingsWithTheme,
             updates |-> [theme |-> <<>>, defaultModel |-> <<>>],
             after |-> defaultSettingsWithTheme]

\* history: the calls in flight have had another call start or end
Overlapped(calls) == {[c EXCEPT !.alone = FALSE] : c \in calls}

\* what a call of updateSettings leaves behind when it ends
Ended(call, success, after) ==
  [made |-> TRUE, success |-> success, thrown |-> ~success,
   alone |-> call.alone, before |-> call.before, updates |-> call.updates, after |-> after]

\* updateSettings(updates) up to its await: the new settings are set, the
\* theme is stored, and the server is called if a server setting is given
UpdateStart(updates) ==
  /\ settingsCtx.n < MaxUpdates
  /\ LET call == [before |-> settingsCtx.settings, updates |-> updates,
                  no |-> settingsCtx.n + 1,
                  alone |-> settingsCtx.calls = {}]
         new  == Merged(settingsCtx.settings, updates)
     IN
     settingsCtx' =
       [settingsCtx EXCEPT
          !.n = settingsCtx.n + 1,
          !.settings = new,
          !.storedTheme = IF updates.theme = <<>> THEN settingsCtx.storedTheme
                          ELSE updates.theme[1],
          !.calls = Overlapped(settingsCtx.calls)
                      \cup (IF HasServerSettings(updates) THEN {call}
                                                          ELSE {}),
          !.last = IF HasServerSettings(updates) THEN settingsCtx.last
                   ELSE Ended(call, TRUE, new)]
  /\ UNCHANGED <<clientVars, bodyVars, dataVars, pageVars, pairVars, nav,
                 auth>>

\* the awaited updateUserSettings settles: on false the settings of the
\* render that made the call are set again and the call throws
UpdateReturn ==
  /\ \E call \in settingsCtx.calls, outcome \in SettingsOutcomes :
       LET success == updateUserSettings(outcome)
           after   == IF success
                        THEN settingsCtx.settings
                        ELSE Reverted(call.before, settingsCtx.settings)
       IN
       settingsCtx' =
         [settingsCtx EXCEPT
            !.calls = Overlapped(settingsCtx.calls \ {call}),
            !.settings = after,
            !.server = IF success THEN call.updates.defaultModel[1]
                                  ELSE settingsCtx.server,
            !.last = Ended(call, success, after)]
  /\ UNCHANGED <<clientVars, bodyVars, dataVars, pageVars, pairVars, nav,
                 auth>>

\* ----------------------------------------------------------- AuthProvider
\* setTimeout(..., authTimeoutMs): 5 s, 3 s in Safari
AuthTimeoutMs == 5000

SafariAuthTimeoutMs == 3000

\* the timeout raced against getSession(): 6 s, 10 s in development
GetSessionTimeoutMs == 6000

DevGetSessionTimeoutMs == 10000

authTimeoutMs(isSafari) ==
  IF isSafari THEN SafariAuthTimeoutMs ELSE AuthTimeoutMs

getSessionTimeoutMs(isDevelopment) ==
  IF isDevelopment THEN DevGetSessionTimeoutMs ELSE GetSessionTimeoutMs

\* what a call of supabase.auth.getSession() can settle with; it may also
\* never settle, which is no outcome
SessionOutcomes == {"session", "none", "error", "reject"}

\* events given to the onAuthStateChange callback
AuthEvents == {"INITIAL_SESSION", "SIGNED_IN", "SIGNED_OUT"}

\* AuthProvider after its effect has run: loading is true, authTimeout is
\* armed, initializeAuth waits for the race of getSession() and its timeout
\* (authFailureCount is 0, so the circuit breaker is passed)
Mounted(isSafari, isDevelopment, hasAuthTokens) ==
  [pc |-> "getSession", loading |-> TRUE, authTimeout |-> "armed",
   clock |-> 0, isSafari |-> isSafari, isDevelopment |-> isDevelopment,
   hasAuthTokens |-> hasAuthTokens, session |-> "none",
   authFailureCount |-> 0, authResolved |-> FALSE, changes |-> FALSE]

\* the finally clause of initializeAuth
Finally(a) ==
  [a EXCEPT !.pc = "done",
            !.authTimeout = IF a.authTimeout = "armed" THEN "cleared"
                            ELSE a.authTimeout,
            !.authResolved = TRUE,
            !.loading = FALSE]

\* the failure branch after the retry, or without one: recovery is tried
\* for an error when the storage is found corrupted, else the data is
\* cleared and signOut() is awaited. authFailureCount is read from the
\* render of the effect, where it is 0
AfterFailure(a, error, corrupted) ==
  IF error /\ corrupted THEN [a EXCEPT !.pc = "recovery"]
                        ELSE [a EXCEPT !.pc = "signOut"]

\* the race has no winner with a session: the failure branch, with one
\* retry of getSession() when there was no error
Failure(a, error, corrupted) ==
  LET b == [a EXCEPT !.authFailureCount = a.authFailureCount + 1] IN
  IF ~error THEN [b EXCEPT !.pc = "retry"]
            ELSE AfterFailure(b, error, corrupted)

\* a timer of the page is due
AuthTimeoutDue ==
  /\ auth.authTimeout = "armed"
  /\ auth.clock >= authTimeoutMs(auth.isSafari)

SessionTimeoutDue ==
  /\ auth.pc = "getSession"
  /\ auth.clock >= getSessionTimeoutMs(auth.isDevelopment)

\* time passes; a timer that is due runs before later ones
AuthTick ==
  /\ auth.pc # "unmounted"
  /\ auth.clock < DevGetSessionTimeoutMs
  /\ ~AuthTimeoutDue
  /\ ~SessionTimeoutDue
  /\ auth' = [auth EXCEPT !.clock = auth.clock + TickMs]
  /\ UNCHANGED <<clientVars, bodyVars, dataVars, pageVars, pairVars, nav,
                 settingsCtx>>

\* mutant: the callback of authTimeout only writes its warning
AuthTimeoutWarns ==
  /\ AuthTimeoutDue
  /\ auth' = [auth EXCEPT !.authTimeout = "fired"]
  /\ UNCHANGED <<clientVars, bodyVars, dataVars, pageVars, pairVars, nav,
                 settingsCtx>>

\* the callback of authTimeout: no session, loading ends
AuthTimeout ==
  /\ AuthTimeoutDue
  /\ auth' = [auth EXCEPT !.authTimeout = "fired",
                          !.session = "none",
                          !.loading = FALSE]
  /\ UNCHANGED <<clientVars, bodyVars, dataVars, pageVars, pairVars, nav,
                 settingsCtx>>

\* the race is won by getSession(): the success branch with a session
\* loads the profile, every other outcome is the failure branch (a
\* rejection is caught like the timeout)
SessionReturn ==
  /\ auth.pc = "getSession"
  /\ \E outcome \in SessionOutcomes, corrupted \in BOOLEAN :
       auth' = IF outcome = "session"
                 THEN [auth EXCEPT !.pc = "profile",
                                   !.authFailureCount = 0,
                                   !.session = "user"]
                 ELSE Failure(auth, outcome = "error", corrupted)
  /\ UNCHANGED <<clientVars, bodyVars, dataVars, pageVars, pairVars, nav,
                 settingsCtx>>

\* the race is won by the timeout
SessionTimeout ==
  /\ SessionTimeoutDue
  /\ ~AuthTimeoutDue
  /\ auth' = Failure(auth, FALSE, FALSE)
  /\ UNCHANGED <<clientVars, bodyVars, dataVars, pageVars, pairVars, nav,
                 settingsCtx>>

\* the getSession() of the retry or of the recovery settles (neither is
\* raced against a timeout): with a session the profile is loaded and the
\* function returns, else the data is cleared and signOut() is awaited
RetryReturn ==
  /\ auth.pc \in {"retry", "recovery"}
  /\ \E outcome \in SessionOutcomes :
       auth' = IF outcome = "session"
                 THEN [auth EXCEPT !.pc = "profile",
                                   !.authFailureCount = 0,
                                   !.session = "user"]
               ELSE IF outcome = "reject" /\ auth.pc = "recovery"
                 THEN [auth EXCEPT !.pc = "signOut",
                          !.authFailureCount = auth.authFailureCount + 1]
               ELSE [auth EXCEPT !.pc = "signOut"]
  /\ UNCHANGED <<clientVars, bodyVars, dataVars, pageVars, pairVars, nav,
                 settingsCtx>>

\* the awaited signOut() settles: the session is cleared (a rejection goes
\* through the catch clause, which clears it too); then the finally clause
SignOutReturn ==
  /\ auth.pc = "signOut"
  /\ \E ok \in BOOLEAN :
       auth' = Finally([auth EXCEPT
                  !.session = "none",
                  !.authFailureCount = IF ok THEN auth.authFailureCount
                                       ELSE auth.authFailureCount + 1])
  /\ UNCHANGED <<clientVars, bodyVars, dataVars, pageVars, pairVars, nav,
                 settingsCtx>>

\* the awaited loadUserProfile settles (it catches its own errors); then
\* the finally clause
ProfileReturn ==
  /\ auth.pc = "profile"
  /\ auth' = Finally(auth)
  /\ UNCHANGED <<clientVars, bodyVars, dataVars, pageVars, pairVars, nav,
                 settingsCtx>>

\* the onAuthStateChange callback: INITIAL_SESSION is ignored (authResolved
\* is read from the render of the effect, where it is false); another event
\* sets the session, and loading ends at once without a user, after the
\* profile is loaded with one
AuthStateChange(event, user) ==
  /\ auth.pc # "unmounted"
  /\ user => event # "SIGNED_OUT"
  /\ auth' = IF event = "INITIAL_SESSION" THEN auth
             ELSE IF user THEN [auth EXCEPT !.session = "user",
                                            !.changes = TRUE]
             ELSE [auth EXCEPT !.session = "none", !.loading = FALSE]
  /\ UNCHANGED <<clientVars, bodyVars, dataVars, pageVars, pairVars, nav,
                 settingsCtx>>

\* the loadUserProfile awaited by the callback settles
ChangeProfileReturn ==
  /\ auth.changes
  /\ auth' = [auth EXCEPT !.changes = FALSE, !.loading = FALSE]
  /\ UNCHANGED <<clientVars, bodyVars, dataVars, pageVars, pairVars, nav,
                 settingsCtx>>

\* --------------------------------------------------------- specifications
\* ------------------------------------- two calls on one client instance
\* the locals of the sendMessage call that is running
Activation ==
  [phase |-> phase, op |-> op, client |-> client, stream |-> stream,
   pc |-> pc, demand |-> demand, httpOk |-> httpOk, frames |-> frames,
   body |-> body, pos |-> pos, lines |-> lines, chunkNo |-> chunkNo,
   frameNo |-> frameNo, aligned |-> aligned, decoded |-> decoded,
   received |-> received, thrown |-> thrown, lockHeld |-> lockHeld,
   requests |-> requests, settingsFetches |-> settingsFetches,
   keyAtStart |-> keyAtStart, failKind |-> failKind, failedAt |-> failedAt,
   doneAt |-> doneAt, ret |-> ret, pending |-> pending, pulls |-> pulls,
   elapsed |-> elapsed, cuts |-> cuts]

\* mutant: the lines of the chunk are kept in a field of the instance
LinesOnInstance(saved, current) == current

\* const lines = chunk.split('\n'): a local of the call, so the call that
\* is resumed finds the lines it left
LinesOfCall(saved, current) == saved

\* the call that is running is suspended at its await or yield and the
\* other call of the instance is resumed; this.apiKey belongs to both
Switch ==
  /\ parked' = Activation
  /\ phase' = parked.phase
  /\ op' = parked.op
  /\ client' = parked.client
  /\ stream' = parked.stream
  /\ pc' = parked.pc
  /\ demand' = parked.demand
  /\ httpOk' = parked.httpOk
  /\ frames' = parked.frames
  /\ body' = parked.body
  /\ pos' = parked.pos
  /\ lines' = LinesOfCall(parked.lines, lines)
  /\ chunkNo' = parked.chunkNo
  /\ frameNo' = parked.frameNo
  /\ aligned' = parked.aligned
  /\ decoded' = parked.decoded
  /\ received' = parked.received
  /\ thrown' = parked.thrown
  /\ lockHeld' = parked.lockHeld
  /\ requests' = parked.requests
  /\ settingsFetches' = parked.settingsFetches
  /\ keyAtStart' = parked.keyAtStart
  /\ failKind' = parked.failKind
  /\ failedAt' = parked.failedAt
  /\ doneAt' = parked.doneAt
  /\ ret' = parked.ret
  /\ pending' = parked.pending
  /\ pulls' = parked.pulls
  /\ elapsed' = parked.elapsed
  /\ cuts' = parked.cuts
  /\ UNCHANGED <<instVars, bodyVars, dataVars, pageVars, otherVars>>

\* a conversation calls sendMessage of the instance the other one uses
StartPair(c, s) ==
  /\ phase = "idle"
  /\ parked.phase = "idle" \/ parked.client = c
  /\ StartSend(c, s)

\* for (const line of lines) run to its end on the lines of one chunk: the
\* texts it yields, and whether it returned at the sentinel
RECURSIVE LinesLoop(_)
LinesLoop(ls) ==
  IF ls = <<>>
    THEN [out |-> <<>>, done |-> FALSE]
    ELSE LET d == DecodeLine(Head(ls)) IN
         IF d.kind = "done"
           THEN [out |-> <<>>, done |-> TRUE]
           ELSE LET r == LinesLoop(Tail(ls)) IN
                IF d.kind = "text"
                  THEN [out |-> <<d.text>> \o r.out, done |-> r.done]
                  ELSE r

\* while (true) over the chunks of sizes cs that the reader hands out of b
RECURSIVE ReadLoop(_, _, _)
ReadLoop(b, from, cs) ==
  IF cs = <<>>
    THEN <<>>
    ELSE LET r == LinesLoop(SplitNL(DecodeChunk(b, from, cs[1]))) IN
         IF r.done THEN r.out
                   ELSE r.out \o ReadLoop(b, from + cs[1], Tail(cs))

\* what sendMessage yields when nothing else runs on the instance, given
\* what the call a met: its key, its response, its chunks, its failure
RunAlone(a) ==
  IF a.client = "openrouter" /\ a.requests = <<>>
    THEN <<NoKeyMsg>>
    ELSE LET streamed == IF a.stream THEN ReadLoop(a.body, 0, a.cuts)
                                     ELSE <<>>
         IN
         IF a.failKind # "none"
           THEN streamed \o <<OuterCatch(a.client).text>>
         ELSE IF a.stream
           THEN streamed
         ELSE <<DecodeBody(a.body).text>>

\* the responses of the two conversations: text frames and the sentinel
PairFrameSeqs == UNION {[1..n -> Texts \cup {"D"}] : n \in 1..MaxShortFrames}

SendFetchPair == SendFetch(PairFrameSeqs)

\* await reader.read() of the running call, with the size of the chunk
\* kept; the network delivers a body in at most MaxPairChunks chunks
SendReadPair ==
  /\ SendReadCall
  /\ cuts' = IF pos' = pos THEN cuts ELSE Append(cuts, pos' - pos)
  /\ Len(cuts') < MaxPairChunks \/ pos' = Len(body)
  /\ UNCHANGED <<bodyVars, dataVars, pageVars, otherVars, parked>>

ShortFrameSeqs == UNION {[1..n -> FrameKinds] : n \in 0..MaxShortFrames}

Clients == {"lmstudio", "openrouter"}

SendFetchStream == SendFetch(FrameSeqs)

SendFetchShort == SendFetch(ShortFrameSeqs)

\* the clients alone: one instance of each, no key stored for the user
Init ==
  /\ Construct
  /\ storedKey = <<>>
  /\ everStored = FALSE
  /\ InitCall
  /\ ExtIdle

Next ==
  \/ \E c \in Clients, s \in BOOLEAN : StartSend(c, s)
  \/ \E c \in Clients : StartSimple(c)
  \/ ConsumerNext
  \/ SendResolveKey
  \/ SendKeyResolved
  \/ SendFetchStream
  \/ SendRead
  \/ SendLine
  \/ SendReturn
  \/ SimpleReturn

Spec == Init /\ [][Next]_vars

\* the clients with the settings collaborator and the settings dialog
InitCloud ==
  /\ Construct
  /\ storedKey \in StoredKeys
  /\ everStored = (decryptApiKey(storedKey) # "")
  /\ InitCall
  /\ ExtIdle

NextCloud ==
  \/ \E c \in Clients, s \in BOOLEAN : StartSend(c, s)
  \/ \E c \in Clients : StartSimple(c)
  \/ ConsumerNext
  \/ SendResolveKey
  \/ SendKeyResolved
  \/ SendFetchShort
  \/ SendRead
  \/ SendLine
  \/ SendReturn
  \/ SimpleReturn
  \/ IsConfigured
  \/ GetModelsStart
  \/ LocalModelsStart
  \/ GetUsageStart
  \/ PromiseKeyResolved
  \/ PromiseFetch
  \/ \E k \in UserKeys : SaveSettings(k)

SpecCloud == InitCloud /\ [][NextCloud]_vars

\* the body of the chat-completions request as a function of the arguments
TurnSeqs == UNION {[1..n -> Turns] : n \in 0..MaxTurns}

InitBody ==
  /\ apiKey = ""
  /\ builtWithKey = FALSE
  /\ storedKey = <<>>
  /\ everStored = FALSE
  /\ InitCall
  /\ args \in [messages : TurnSeqs, model : ModelIds, options : Options,
               client : Clients]
  /\ sentBody = <<>>
  /\ PageIdle
  /\ PairIdle
  /\ OtherIdle

NextBody ==
  \/ BuildBody
  \/ \E ms \in {<<>>}, m \in ModelIds, o \in Options, c \in Clients :
       NextCall(ms, m, o, c)

SpecBody == InitBody /\ [][NextBody]_vars

\* the chat page, the project provider and the messages table, with the
\* client the page calls
InitDriver ==
  /\ Construct
  /\ storedKey \in StoredKeys
  /\ everStored = (decryptApiKey(storedKey) # "")
  /\ InitCall
  /\ args = NoArgs
  /\ sentBody = <<>>
  /\ store = <<>>
  /\ created = <<>>
  /\ chats = ChatIds
  /\ currentChat \in {"", PageChat}
  /\ messages = <<>>
  /\ loadPending = <<>>
  /\ \E p \in Providers, m \in ChatModels :
       drv = [NoDrv EXCEPT !.provider = p, !.model = m]
  /\ trace = <<>>
  /\ sends = 0
  /\ PairIdle
  /\ OtherIdle

NextDriver ==
  \/ \E inp \in Inputs : Submit(inp)
  \/ DrvUserInsert
  \/ DrvUserReturn
  \/ SendResolveKey
  \/ SendKeyResolved
  \/ SendFetchShort
  \/ SimpleReturn
  \/ DrvResponse
  \/ DrvAsstInsert
  \/ DrvAsstReturn
  \/ DrvFinally
  \/ DeleteChat(PageChat)
  \/ SetCurrentChat
  \/ LoadStart(PageChat)
  \/ LoadDone

SpecDriver == InitDriver /\ [][NextDriver]_vars

\* the same, where every promise the driver awaits settles: the database
\* answers an insert, the settings read and the fetch of the client settle,
\* and a handler that can continue does
SpecDriverFair ==
  /\ InitDriver
  /\ [][NextDriver]_vars
  /\ WF_vars(DrvUserInsert)
  /\ WF_vars(DrvUserReturn)
  /\ WF_vars(SendResolveKey)
  /\ WF_vars(SendKeyResolved)
  /\ WF_vars(SendFetchShort)
  /\ WF_vars(SimpleReturn)
  /\ WF_vars(DrvResponse)
  /\ WF_vars(DrvAsstInsert)
  /\ WF_vars(DrvAsstReturn)
  /\ WF_vars(DrvFinally)

\* two conversations stream from one client instance at the same time
InitPair ==
  /\ Construct
  /\ storedKey \in StoredKeys
  /\ everStored = (decryptApiKey(storedKey) # "")
  /\ InitCall
  /\ ExtIdle

NextPair ==
  \/ \E c \in Clients, s \in BOOLEAN : StartPair(c, s)
  \/ ConsumerNext
  \/ SendResolveKey
  \/ SendKeyResolved
  \/ SendFetchPair
  \/ SendReadPair
  \/ SendLine
  \/ SendReturn
  \/ Switch

SpecPair == InitPair /\ [][NextPair]_vars

\* the chat page is opened for one chat after another while rows arrive
InitNav ==
  /\ apiKey = ""
  /\ builtWithKey = FALSE
  /\ storedKey = <<>>
  /\ everStored = FALSE
  /\ InitCall
  /\ args = NoArgs
  /\ sentBody = <<>>
  /\ store = <<>>
  /\ created = <<>>
  /\ chats = ChatIds
  /\ currentChat = ""
  /\ messages = <<>>
  /\ loadPending = <<>>
  /\ drv = NoDrv
  /\ trace = <<>>
  /\ sends = 0
  /\ PairIdle
  /\ OtherIdle

NextNav ==
  \/ \E c \in ChatIds : Navigate(c)
  \/ \E c \in ChatIds : RemoteInsert(c)
  \/ LoadReturn

SpecNav == InitNav /\ [][NextNav]_vars

\* the settings dialog saves settings through SettingsProvider
InitSettings ==
  /\ apiKey = ""
  /\ builtWithKey = FALSE
  /\ storedKey = <<>>
  /\ everStored = FALSE
  /\ InitCall
  /\ args = NoArgs
  /\ sentBody = <<>>
  /\ PageIdle
  /\ PairIdle
  /\ nav = NoNav
  /\ auth = NoAuth
  /\ \E v \in SettingsValues :
       settingsCtx = [pc |-> "mounted", settings |-> v,
                      storedTheme |-> v.theme, server |-> v.defaultModel,
                      calls |-> {}, last |-> NoUpdate, n |-> 0]

NextSettings ==
  \/ \E u \in SettingsUpdates : UpdateStart(u)
  \/ UpdateReturn

SpecSettings == InitSettings /\ [][NextSettings]_vars

\* AuthProvider is mounted in some browser and build, with or without
\* tokens in localStorage
InitAuth ==
  /\ apiKey = ""
  /\ builtWithKey = FALSE
  /\ storedKey = <<>>
  /\ everStored = FALSE
  /\ InitCall
  /\ args = NoArgs
  /\ sentBody = <<>>
  /\ PageIdle
  /\ PairIdle
  /\ nav = NoNav
  /\ settingsCtx = NoSettings
  /\ \E isSafari \in BOOLEAN, isDevelopment \in BOOLEAN,
        hasAuthTokens \in BOOLEAN :
       auth = Mounted(isSafari, isDevelopment, hasAuthTokens)

NextAuth ==
  \/ AuthTick
  \/ AuthTimeout
  \/ SessionReturn
  \/ SessionTimeout
  \/ RetryReturn
  \/ SignOutReturn
  \/ ProfileReturn
  \/ \E event \in AuthEvents, user \in BOOLEAN : AuthStateChange(event, user)
  \/ ChangeProfileReturn

\* the clock of the page advances and its timers run when they are due;
\* nothing is assumed of the answers of the auth server
SpecAuth ==
  /\ InitAuth
  /\ [][NextAuth]_vars
  /\ WF_vars(AuthTick)
  /\ WF_vars(AuthTimeout)
  /\ WF_vars(SessionTimeout)

\* the availability probe and the catalog operations, as ModelSelector and
\* the settings dialog use them; the runtime's clock and timer always advance
NextProbe ==
  \/ ProbeStart
  \/ ProbeTick
  \/ ProbeRespond
  \/ ProbeAbort
  \/ IsConfigured
  \/ LocalModelsStart
  \/ GetModelsStart
  \/ PromiseKeyResolved
  \/ PromiseFetch
  \/ \E k \in UserKeys : SaveSettings(k)

SpecProbe ==
  /\ InitCloud
  /\ [][NextProbe]_vars
  /\ WF_vars(ProbeTick)
  /\ WF_vars(ProbeAbort)

\* ==================================================================
\* Properties
\* ==================================================================
\* the non-empty texts of the frames fs, in order
RECURSIVE TextsOf(_)
TextsOf(fs) ==
  IF fs = <<>> THEN <<>>
  ELSE (IF FrameText(Head(fs)) = "" THEN <<>> ELSE <<FrameText(Head(fs))>>)
       \o TextsOf(Tail(fs))

DecodedTexts == [i \in 1..Len(decoded) |-> decoded[i][3]]

HasFrame(k) == \E i \in 1..Len(frames) : frames[i] = k

FirstDone ==
  CHOOSE i \in 1..Len(frames) :
    frames[i] = "D" /\ \A j \in 1..(i - 1) : frames[j] # "D"

IsSend == op \in {"sendMessage", "getSimpleResponse"}

\* a streaming call that decoded its body and ended without a failure
StreamEnded ==
  /\ op = "sendMessage"
  /\ stream
  /\ httpOk = "true"
  /\ failKind = "none"
  /\ pc = "done"

\* C1 (as claimed): whatever the chunking, a streaming call on a body of
\* valid frames (text frames, frames without content, the sentinel last if
\* at all) yields exactly the frames' texts in order.
C1_EveryFrameTextYielded ==
  (/\ StreamEnded
   /\ ~HasFrame("X")
   /\ \A i \in 1..Len(frames) : frames[i] = "D" => i = Len(frames))
  => received = TextsOf(frames)

C3_NetworkFailureEndsWithApology ==
  (IsSend /\ failKind = "net") =>
    /\ ~thrown
    /\ failedAt = <<DecodedTexts>>
    /\ received = Append(DecodedTexts, Apology(client))
    /\ pc \in {"caught", "done"}

C3_Witness ==
  /\ op = "sendMessage"
  /\ failKind = "net"
  /\ pc = "done"
  /\ Len(received) = 2
  /\ chunkNo >= 1

\* C4: the frame decoded as the sentinel is a [DONE] frame of the body, the
\* call has ended at it and everything received was decoded from frames
\* before it; a call that ended without decoding a sentinel ended at the end
\* of the stream; and a sentinel delivered in whole lines is decoded.
C4_StopsAtSentinel ==
  /\ doneAt > 0 =>
       /\ doneAt \in 1..Len(frames)
       /\ frames[doneAt] = "D"
       /\ pc = "done"
       /\ ~demand
       /\ received = DecodedTexts
       /\ \A i \in 1..Len(decoded) : decoded[i][1] < doneAt
  /\ (StreamEnded /\ doneAt = 0) => (pos = Len(body) /\ lines = <<>>)
  /\ (StreamEnded /\ aligned /\ HasFrame("D")) => doneAt = FirstDone

C4_Witness ==
  /\ StreamEnded
  /\ doneAt = 1
  /\ Len(frames) = 2
  /\ frames[2] \in Texts
  /\ received = <<>>

\* C5 (as claimed): in a stream with malformed frames between valid ones
\* (and no sentinel) every valid frame's text is yielded, in order, and
\* nothing is raised.
C5_ValidFramesSurviveMalformed ==
  (StreamEnded /\ HasFrame("X") /\ ~HasFrame("D"))
  => (received = TextsOf(frames) /\ ~thrown)

\* provenance of the decoded fragments: each is the text of the frame it was
\* decoded from, frames and chunks only go forward, and a streaming call
\* that has not failed has delivered exactly what it decoded
C6_Inv ==
  /\ \A i \in 1..Len(decoded) :
       /\ decoded[i][1] \in 1..Len(frames)
       /\ decoded[i][3] # ""
       /\ decoded[i][3] = FrameText(frames[decoded[i][1]])
       /\ i > 1 => /\ decoded[i - 1][1] < decoded[i][1]
                   /\ decoded[i - 1][2] <= decoded[i][2]
  /\ (IsSend /\ stream /\ httpOk = "true" /\ failKind = "none")
       => received = DecodedTexts

\* C6: every decoded fragment is the text of the frame it was decoded from,
\* the frames decoded are strictly increasing (no reordering, no frame
\* twice), what a streaming call delivered is what it decoded, and a chunk is
\* requested only when every line of the chunk before has been processed and
\* its fragments delivered.
C6_ArrivalOrder ==
  /\ []C6_Inv
  /\ [][chunkNo' = chunkNo + 1 =>
          (lines = <<>> /\ demand /\ received = DecodedTexts)]_vars

C6_Witness ==
  /\ StreamEnded
  /\ Len(received) = 2
  /\ decoded[1][2] < decoded[2][2]

\* C7: with stream = false a successful response is yielded as one fragment,
\* its message content, and a call that has ended has yielded exactly one
\* fragment whatever happened (success, status, network, no key).
C7_NonStreamingOneFragment ==
  (IsSend /\ ~stream) =>
    /\ Len(received) <= 1
    /\ ~thrown
    /\ pc = "done" => Len(received) = 1
    /\ (httpOk = "true" /\ failKind = "none") =>
         received = <<IF Len(body) = 3 THEN body[2] ELSE "">>

C7_Witness ==
  /\ op = "sendMessage"
  /\ ~stream
  /\ pc = "done"
  /\ httpOk = "true"
  /\ received = <<"a">>

\* C8: getSimpleResponse never throws and returns the sole fragment, or
\* 'No response received' when there is none or it is empty.
C8_SimpleResponse ==
  (op = "getSimpleResponse" /\ phase = "finished") =>
    /\ ret.kind = "value"
    /\ Len(received) <= 1
    /\ ret.val = IF received = <<>> \/ received[1] = ""
                   THEN NoResponse ELSE received[1]
    /\ (ret.val = NoResponse) <=> (received = <<>> \/ received = <<"">>)

C8_Witness ==
  /\ op = "getSimpleResponse"
  /\ phase = "finished"
  /\ httpOk = "true"
  /\ ret.val = NoResponse

\* C9: a cloud call that starts without a key and gets none from the
\* settings yields the one 'not configured' fragment and issues no request.
C9_NoKeyShortCircuit ==
  (IsSend /\ client = "openrouter" /\ apiKey = ""
     /\ pc \notin {"start", "settings"}) =>
    /\ keyAtStart = ""
    /\ settingsFetches = 1
    /\ received = <<NoKeyMsg>>
    /\ requests = <<>>
    /\ ~thrown
    /\ pc \in {"nokey", "done"}

C9_Witness ==
  /\ op = "sendMessage"
  /\ client = "openrouter"
  /\ storedKey = <<"?">>
  /\ received = <<NoKeyMsg>>
  /\ pc = "done"

KeyTested == SendResolveKey \/ GetModelsStart \/ GetUsageStart

\* the settings collaborator is consulted in this step
Consulted == pending' # <<>> /\ pending = <<>>

\* C11 (as claimed): the settings collaborator is consulted only while the
\* instance holds no credential, and then by every call; a credential the
\* instance holds is never reset to empty, so isConfigured() never goes back
\* from true to false.
C11_CredentialCached ==
  /\ [][Consulted => apiKey = ""]_vars
  /\ [][(KeyTested /\ apiKey = "") => Consulted]_vars
  /\ [][isConfigured(apiKey) => isConfigured(apiKey')]_vars

\* C12 (as claimed): every request the cloud client has issued carries the
\* bearer key and both attribution headers.
C12_EveryRequestCarriesHeaders ==
  \A i \in 1..Len(requests) :
    requests[i].client = "openrouter" =>
      (requests[i].auth # "" /\ requests[i].attribution)

\* a getModels call that has returned
ModelsReturned == op = "getModels" /\ phase = "finished"

\* C14: getModels of either client returns to its caller without throwing:
\* the models only for a success status with a body that lists them, the
\* empty sequence on a network error, on a non-success status and on a body
\* that cannot be parsed; the cloud client returns the empty sequence without
\* a request when the settings give it no key.
C14_GetModelsNeverThrows ==
  /\ [](ModelsReturned =>
         /\ ret.kind = "value"
         /\ ret.val \in {"models", "empty"}
         /\ ret.val = "models" <=>
              (Len(requests) = 1 /\ httpOk = "true" /\ body = <<"list">>)
         /\ requests = <<>> => (client = "openrouter" /\ settingsFetches = 1))
  /\ [][(PromiseKeyResolved /\ op = "getModels" /\ pending[1] = "")
          => (requests' = <<>> /\ ModelsReturned' /\ ret'.val = "empty")]_vars

C14_Witness ==
  /\ ModelsReturned
  /\ client = "lmstudio"
  /\ httpOk = "false"
  /\ ret.val = "empty"

\* a getUsage call that has returned
UsageReturned == op = "getUsage" /\ phase = "finished"

\* C15: getUsage returns to its caller without throwing: the usage record
\* only for a success status, nothing for a failed request and for a
\* non-success status, and nothing without a request when the settings give
\* it no key.
C15_GetUsageNeverThrows ==
  /\ [](UsageReturned =>
         /\ ret.kind = "value"
         /\ ret.val \in {"usage", "null"}
         /\ ret.val = "usage" => (Len(requests) = 1 /\ httpOk = "true")
         /\ httpOk \in {"none", "false"} => ret.val = "null"
         /\ requests = <<>> => settingsFetches = 1)
  /\ [][(PromiseKeyResolved /\ op = "getUsage" /\ pending[1] = "")
          => (requests' = <<>> /\ UsageReturned' /\ ret'.val = "null")]_vars

C15_Witness ==
  /\ UsageReturned
  /\ httpOk = "false"
  /\ body = <<"list">>
  /\ ret.val = "null"

\* an isAvailable call that has returned
ProbeReturned == op = "isAvailable" /\ phase = "finished"

\* C13: isAvailable returns to its caller without throwing: true only for a
\* response with a success status, false for a network error, a non-success
\* status and an endpoint silent until the timeout; a probe never waits
\* longer than the timeout and every probe returns.
C13_ProbeNeverThrows ==
  /\ [](ProbeReturned =>
         /\ ret.kind = "value"
         /\ ret.val \in {"true", "false"}
         /\ ret.val = "true" <=> httpOk = "true"
         /\ failKind = "timeout" => (httpOk = "none" /\ ret.val = "false"))
  /\ [](Probing => elapsed <= ProbeTimeoutMs)
  /\ (Probing ~> ProbeReturned)

C13_Witness ==
  /\ ProbeReturned
  /\ failKind = "timeout"
  /\ elapsed = ProbeTimeoutMs
  /\ ret.val = "false"

\* C18: the generator runs only inside a next() of the consumer: the
\* fragments delivered never outnumber the consumer's pulls, and a read is
\* issued only when every line of the chunk before has been processed and
\* the consumer's latest pull is still unanswered, so nothing decoded waits
\* in the generator across a read.
C18_PullDriven ==
  /\ [](IsSend => (Len(received) <= pulls /\ pulls <= Len(received) + 1))
  /\ [](IsSend => \A i \in 1..Len(decoded) :
                    (decoded[i][2] < chunkNo \/ pc = "read") =>
                      (i <= Len(received) /\ received[i] = decoded[i][3]))
  /\ [][SendRead => (lines = <<>> /\ pulls = Len(received) + 1)]_vars

C18_Witness ==
  /\ StreamEnded
  /\ chunkNo >= 2
  /\ pulls = 3
  /\ Len(received) = 2

\* C20: the body built for a call has one entry per input turn, in the
\* turns' order, each with the fields role and content only and the turn's
\* values; it carries the model id given; temperature, max_tokens and stream
\* are the options supplied, and 0.7, 2048 and true where none is supplied.
C20_RequestBody ==
  sentBody # <<>> =>
    LET b == sentBody[1]
        o == args.options
    IN
    /\ DOMAIN b = {"model", "messages", "temperature", "max_tokens", "stream"}
    /\ Len(b.messages) = Len(args.messages)
    /\ \A i \in 1..Len(args.messages) :
         /\ DOMAIN b.messages[i] = {"role", "content"}
         /\ b.messages[i].role = args.messages[i].role
         /\ b.messages[i].content = args.messages[i].content
    /\ b.model = args.model
    /\ o.temperature = <<>> => b.temperature = "0.7"
    /\ o.temperature # <<>> => b.temperature = o.temperature[1]
    /\ o.maxTokens = <<>> => b.max_tokens = "2048"
    /\ o.maxTokens # <<>> => b.max_tokens = o.maxTokens[1]
    /\ o.stream = <<>> => b.stream = "true"
    /\ o.stream # <<>> => b.stream = o.stream[1]

C20_Witness ==
  /\ sentBody # <<>>
  /\ Len(args.messages) = 2
  /\ args.messages[1].role = "assistant"
  /\ args.messages[2].role = "user"
  /\ args.messages[1].id = "m1"
  /\ args.options.temperature = <<"0">>
  /\ args.options.maxTokens = <<>>
  /\ args.options.stream = <<"false">>

\* the rows the send in progress (or the last one) has inserted
RowsOfSend(k, r) ==
  {i \in 1..Len(created) : created[i].send = k /\ created[i].row.role = r}

IsPrefix(t, u) == Len(t) <= Len(u) /\ t = SubSeq(u, 1, Len(t))

\* C17: within one send the insert of the user turn has returned before the
\* client is invoked, the client has returned before the assistant turn is
\* inserted, and a send inserts at most one user turn and at most one
\* assistant turn, the user turn first.
C17_DriverOrder ==
  /\ [](\E u \in {"user", "userFailed"},
           a \in {"assistant", "assistantFailed"} :
           IsPrefix(trace, <<u, "invoke", "response", a>>))
  /\ [](\A k \in 1..sends :
           /\ Cardinality(RowsOfSend(k, "user")) <= 1
           /\ Cardinality(RowsOfSend(k, "assistant")) <= 1
           /\ \A i \in RowsOfSend(k, "user"), j \in RowsOfSend(k, "assistant") :
                i < j)
  /\ [][Len(created') > Len(created) /\ created'[Len(created')].row.role = "assistant"
        => (op = "getSimpleResponse" /\ phase = "finished"
            /\ drv.response = <<created'[Len(created')].row.content>>)]_vars

C17_Witness ==
  /\ trace = <<"user", "invoke", "response", "assistant">>
  /\ drv.provider = "openrouter"
  /\ drv.pc = "idle"
  /\ Len(store) = 2

\* the stored rows of chat c, in the order the table holds them
StoredTurns(c) == SelectSeq(store, LAMBDA r : r.chat_id = c)

\* C19: every stored turn is the row its insert created, with that role and
\* content; the table only gains rows by inserts, which never touch a row
\* already there, and loses rows only with their chat; the rows are held in
\* insertion order and loadMessages reads a chat's turns in that order.
C19_TurnsImmutable ==
  /\ [](\A i \in 1..Len(store) :
          /\ store[i].id \in 1..Len(created)
          /\ store[i] = created[store[i].id].row
          /\ i > 1 => store[i - 1].id < store[i].id)
  /\ [][/\ IsPrefix(created, created')
        /\ \A i \in 1..Len(store) :
             \/ \E j \in 1..Len(store') : store'[j] = store[i]
             \/ store[i].chat_id \notin chats'
        /\ \A j \in 1..Len(store') :
             \/ \E i \in 1..Len(store) : store[i] = store'[j]
             \/ (j = Len(store') /\ store'[j].id = Len(created) + 1)]_vars
  /\ [][(loadPending = <<>> /\ loadPending' # <<>>)
          => loadPending'[2] = StoredTurns(loadPending'[1])]_vars

C19_Witness ==
  /\ loadPending # <<>>
  /\ Len(loadPending[2]) = 2
  /\ loadPending[2][1].role = "user"
  /\ loadPending[2][2].role = "assistant"
  /\ store = <<>>

\* ---------------------------------------------------------------- C16
\* a call that has ended has yielded what it yields alone
EndedAsAlone(a) == a.phase = "finished" => a.received = RunAlone(a)

\* a step changes the locals of the suspended call only by suspending the
\* running one, and assigns apiKey only the key the running call fetched
WritesOwnStateOnly ==
  /\ (parked' # parked) => (parked' = Activation)
  /\ (apiKey' # apiKey) =>
       (client = "openrouter" /\ pending # <<>> /\ apiKey' = pending[1])

\* C16: two sendMessage calls interleaved on one client instance do not
\* interfere: a call that has ended has yielded exactly the fragments it
\* yields alone on its own response and chunks; a step of the running call
\* leaves the locals of the suspended call as they are; and the only field
\* of the instance a call assigns is apiKey, with the key it fetched
C16_NoInterference ==
  /\ [](EndedAsAlone(Activation) /\ EndedAsAlone(parked))
  /\ [][WritesOwnStateOnly]_vars

\* one call has streamed its text in two chunks to its end while the other,
\* with another response, is suspended inside its loop over the lines
C16_Witness ==
  /\ phase = "finished"
  /\ stream
  /\ Len(cuts) = 2
  /\ received = <<"a">>
  /\ parked.phase = "active"
  /\ parked.pc = "line"
  /\ parked.received = <<"b">>
  /\ parked.lines # <<>>

\* ---------------------------------------------------------------- C21
InTrace(e) == \E i \in 1..Len(trace) : trace[i] = e

KnownProvider == drv.provider \in {"lmstudio", "openrouter"}

\* the send the page accepted last has run to its end
SendEnded == drv.pc = "idle" /\ trace # <<>>

\* what the reply must be, from what the client met in its call
ExpectedReply ==
  IF client = "openrouter" /\ requests = <<>> THEN NoKeyMsg
  ELSE IF failKind # "none" THEN Apology(client)
  ELSE IF DecodeBody(body).text = "" THEN NoResponse
  ELSE DecodeBody(body).text

\* C21: for a chat of a known provider, a send whose inserts both succeed
\* ends with exactly one assistant turn of that send stored, its content
\* non-empty: the response text, 'No response received' for an empty
\* response, the apology after an HTTP or network failure, the explanatory
\* text when the cloud credential is missing.
C21_OneAssistantTurn ==
  (SendEnded /\ KnownProvider
     /\ ~InTrace("userFailed") /\ ~InTrace("assistantFailed"))
  => /\ trace = <<"user", "invoke", "response", "assistant">>
     /\ Cardinality(RowsOfSend(sends, "assistant")) = 1
     /\ \A i \in RowsOfSend(sends, "assistant") :
          /\ created[i].row.content # ""
          /\ created[i].row.content = ExpectedReply

\* a send to the cloud client without a credential has ended with the
\* explanatory text stored as the assistant turn
C21_Witness ==
  /\ SendEnded
  /\ drv.provider = "openrouter"
  /\ trace = <<"user", "invoke", "response", "assistant">>
  /\ \E i \in RowsOfSend(sends, "assistant") :
       created[i].row.content = NoKeyMsg

\* ---------------------------------------------------------------- C22
\* C22: an assistant turn is stored for a send only if the user turn of the
\* same send was stored before it; when the insert of the user turn fails
\* the driver invokes no client and inserts no assistant turn.
C22_AssistantOnlyAfterUser ==
  /\ \A k \in 1..sends :
       RowsOfSend(k, "assistant") # {} => RowsOfSend(k, "user") # {}
  /\ InTrace("userFailed") => trace = <<"userFailed">>

\* ---------------------------------------------------------------- C25
\* C25: the client invoked is the one the chat's provider names, called
\* with the chat's model name, and every request of the call goes to that
\* client; for any other provider no client is invoked and no assistant
\* turn is inserted.
C25_ProviderSelectsClient ==
  /\ InTrace("invoke") =>
       /\ KnownProvider
       /\ op = "getSimpleResponse"
       /\ client = drv.provider
       /\ args.client = drv.provider
       /\ args.model = drv.model
       /\ \A i \in 1..Len(requests) : requests[i].client = drv.provider
  /\ ~KnownProvider =>
       /\ phase = "idle"
       /\ ~InTrace("invoke")
       /\ \A k \in 1..sends : RowsOfSend(k, "assistant") = {}

\* the cloud client has answered a request for a chat of the second model
C25_Witness ==
  /\ drv.provider = "openrouter"
  /\ drv.model = "model-b"
  /\ InTrace("response")
  /\ requests # <<>>
  /\ args.model = "model-b"

\* ---------------------------------------------------------------- C26
\* a step of the driver other than the form's submit handler
DriverStep == trace' # trace /\ trace' # <<>>

C23_NoTurnTwice ==
  \A i, j \in 1..Len(messages) : messages[i].id = messages[j].id => i = j

\* ---------------------------------------------------------------- C27
\* C27: the reader's lock is held only while a streaming call is in its
\* read loop; once the loop is left, at the sentinel, at the end of the
\* stream or by a failed read, the lock is released, and it is not held
\* when the call has finished.
C27_LockReleased ==
  /\ lockHeld => (Sending /\ stream /\ pc \in {"read", "line"})
  /\ (Sending /\ pc \in {"read", "line"}) => lockHeld

\* a streaming call whose read failed after a first chunk has finished
C27_Witness ==
  /\ op = "sendMessage"
  /\ phase = "finished"
  /\ stream
  /\ chunkNo >= 1
  /\ failKind = "net"
  /\ ~lockHeld

\* ---------------------------------------------------------------- C24
\* every load that was started has returned its rows
LoadsComplete == nav.visits > 0 /\ nav.loads = {} /\ ~nav.failed

\* C24: when the loads started for the chats opened one after the other
\* have all returned, the list of messages holds turns of the chat shown
\* only, in whatever order the loads returned.
C24_OnlyTurnsOfChatShown ==
  LoadsComplete =>
    \A i \in 1..Len(messages) : messages[i].chat_id = nav.shown

C28_LoadingEnds == <>[](~auth.loading)

\* the retry of the session lookup has not settled, and loading has ended
C28_Witness ==
  /\ auth.pc = "retry"
  /\ auth.authTimeout = "fired"
  /\ ~auth.authResolved
  /\ ~auth.loading

====
